---------------------------- MODULE Spec2Model ----------------------------
(***************************************************************************)
(* Model of the GCC build agent: the build -> diagnose -> gather -> ask    *)
(* the oracle -> apply -> rebuild loop of builder.py ("v1"),               *)
(* builder_v3.py ("v3") and builder_v4.py ("v4").                          *)
(*                                                                         *)
(* Text (build logs, oracle responses, file contents) is a sequence of     *)
(* tokens.  A token is an atomic run of characters of one class: ":",      *)
(* a newline, a blank, a number, a quote, a fence or a word; the regular   *)
(* expressions of the source are evaluated on these sequences.             *)
(***************************************************************************)
EXTENDS Naturals, Sequences, FiniteSets, TLC

VARIABLES ver, pc, attempt, builds, oracleCalls, log, diag, bundle,
          response, disk, outcome, exitCode, marks

vars == <<ver, pc, attempt, builds, oracleCalls, log, diag, bundle,
          response, disk, outcome, exitCode, marks>>

---------------------------------------------------------------------------
(* Text helpers *)

NL == "\n"

WS == {" ", NL}

Digits == {"1", "3", "12"}

BQ == "<bq>"

Quotes == {BQ, "'"}

FENCE == "<fence>"

Min(S) == CHOOSE x \in S : \A y \in S : x <= y

Max(S) == CHOOSE x \in S : \A y \in S : x >= y

\* The last index e >= p-1 such that every token of s in p..e lies in S.
RunEnd(s, p, S) ==
    Max({e \in (p - 1)..Len(s) : \A t \in p..e : s[t] \in S})

\* The last index e >= p-1 such that no token of s in p..e lies in S.
RunEndNot(s, p, S) ==
    Max({e \in (p - 1)..Len(s) : \A t \in p..e : s[t] \notin S})

Tok(s, p) == IF p \in 1..Len(s) THEN s[p] ELSE "<eof>"

RECURSIVE Join(_)
Join(s) == IF s = <<>> THEN "" ELSE Head(s) \o Join(Tail(s))

\* str.strip() on a token sequence: blanks and newlines off both ends.
Strip(s) ==
    LET keep == {i \in 1..Len(s) : s[i] \notin WS}
    IN  IF keep = {} THEN <<>> ELSE SubSeq(s, Min(keep), Max(keep))

\* The positions of s that hold token t.
Positions(s, t) == {i \in 1..Len(s) : s[i] = t}

---------------------------------------------------------------------------
(* Error classification *)

NoMatch == [kind |-> "none"]

\* ^ under re.MULTILINE: the start of the text or just after a newline.
LineStart(s, i) == i \in 1..Len(s) /\ (i = 1 \/ s[i - 1] = NL)

\* COMPILE_ERROR_PATTERN anchored at line start i:
\*   ^([^:\n]+):(\d+):(\d+):\s+(?:fatal\s+)?error:\s+(.+)$
\* \s matches a newline as well as a blank.
CompileMatchAt(s, i) ==
    LET j  == RunEndNot(s, i, {":", NL})
        w1 == RunEnd(s, j + 6, WS)
        f  == IF Tok(s, w1 + 1) = "fatal" /\ RunEnd(s, w1 + 2, WS) >= w1 + 2
              THEN RunEnd(s, w1 + 2, WS) ELSE w1
        w2 == RunEnd(s, f + 3, WS)
        \* \s+ gives back blanks until (.+)$ finds a non-empty rest of line
        starts == {q \in (f + 4)..(w2 + 1) : q <= Len(s) /\ s[q] # NL}
    IN  IF /\ LineStart(s, i)
           /\ j >= i
           /\ Tok(s, j + 1) = ":"
           /\ Tok(s, j + 2) \in Digits
           /\ Tok(s, j + 3) = ":"
           /\ Tok(s, j + 4) \in Digits
           /\ Tok(s, j + 5) = ":"
           /\ w1 >= j + 6
           /\ Tok(s, f + 1) = "error"
           /\ Tok(s, f + 2) = ":"
           /\ w2 >= f + 3
           /\ starts # {}
        THEN [kind |-> "compile", path |-> Join(SubSeq(s, i, j)),
              line |-> s[j + 2], at |-> i]
        ELSE NoMatch

\* COMPILE_ERROR_PATTERN.search: the leftmost match.
CompileSearch(s) ==
    LET hits == {i \in 1..Len(s) : CompileMatchAt(s, i) # NoMatch}
    IN  IF hits = {} THEN NoMatch ELSE CompileMatchAt(s, Min(hits))

\* The phrase of LINKER_ERROR_PATTERN at i; the index of its last token,
\* or 0: "undefined reference to" | "undefined symbol:".
PhraseEnd(s, i) ==
    IF Tok(s, i) = "undefined reference to" THEN i
    ELSE IF Tok(s, i) = "undefined symbol" /\ Tok(s, i + 1) = ":" THEN i + 1
    ELSE 0

\* The rest of LINKER_ERROR_PATTERN from p on, after the blanks of \s+:  [`']?([^'\n]+)['`]?   The symbol captured, or <<>>.
LinkSymAfter(s, p) ==
    LET a == RunEndNot(s, p + 1, {"'", NL})
        b == RunEndNot(s, p, {"'", NL})
    IN  IF Tok(s, p) \in Quotes /\ a >= p + 1 THEN SubSeq(s, p + 1, a)
        ELSE IF b >= p THEN SubSeq(s, p, b)
        ELSE <<>>

\* LINKER_ERROR_PATTERN at i:
\*   (?:undefined reference to|undefined symbol:)\s+[`']?([^'\n]+)['`]?
LinkMatchAt(s, i) ==
    LET e  == PhraseEnd(s, i)
        w  == RunEnd(s, e + 1, WS)
        \* \s+ is greedy and backtracks: the longest run of blanks that works
        ks == {q \in (e + 2)..(w + 1) : LinkSymAfter(s, q) # <<>>}
    IN  IF e # 0 /\ w >= e + 1 /\ ks # {}
        THEN [kind |-> "link", symbol |-> LinkSymAfter(s, Max(ks)), at |-> i]
        ELSE NoMatch

\* LINKER_ERROR_PATTERN.search: the leftmost match.
LinkSearch(s) ==
    LET hits == {i \in 1..Len(s) : LinkMatchAt(s, i) # NoMatch}
    IN  IF hits = {} THEN NoMatch ELSE LinkMatchAt(s, Min(hits))

\* builder.py / builder_v3.py: only the compile grammar is known.
find_culprit_file(s) == CompileSearch(s)

\* Mutant: the linker grammar is tried before the compile grammar.
link_first_classify(s) ==
    IF LinkSearch(s) # NoMatch THEN LinkSearch(s)
    ELSE IF CompileSearch(s) # NoMatch THEN CompileSearch(s)
    ELSE NoMatch

\* builder_v4.py: the compile grammar first, then the linker grammar.
analyze_and_fix_classify(s) ==
    IF CompileSearch(s) # NoMatch THEN CompileSearch(s)
    ELSE IF LinkSearch(s) # NoMatch THEN LinkSearch(s)
    ELSE NoMatch

Classify(v, s) ==
    IF v = "v4" THEN analyze_and_fix_classify(s) ELSE find_culprit_file(s)

---------------------------------------------------------------------------
(* Oracle responses: parsing and code extraction *)

\* A marker of re.split(r'FILE:\s*([^\s\n]+)') at i: the index of the last
\* token of the path, or 0 when there is no marker at i.
MarkerEnd(s, i) ==
    LET w == RunEnd(s, i + 2, WS)
        e == RunEndNot(s, w + 1, WS)
    IN  IF Tok(s, i) = "FILE" /\ Tok(s, i + 1) = ":" /\ e >= w + 1
        THEN e ELSE 0

MarkerPath(s, i) ==
    LET w == RunEnd(s, i + 2, WS)
    IN  Join(SubSeq(s, w + 1, MarkerEnd(s, i)))

\* The first marker at or after p, or 0.
NextMarker(s, p) ==
    LET ms == {i \in p..Len(s) : MarkerEnd(s, i) # 0}
    IN  IF ms = {} THEN 0 ELSE Min(ms)

\* parts[1:] of the re.split, in (filename, content) pairs, from p on.
RECURSIVE SplitBlocks(_, _)
SplitBlocks(s, p) ==
    LET m == NextMarker(s, p)
        e == MarkerEnd(s, m)
        n == NextMarker(s, e + 1)
        stop == IF n = 0 THEN Len(s) ELSE n - 1
    IN  IF m = 0 THEN <<>>
        ELSE <<[path |-> MarkerPath(s, m), content |-> SubSeq(s, e + 1, stop)]>>
             \o (IF n = 0 THEN <<>> ELSE SplitBlocks(s, n))

\* text.split("```")[1]: what lies between the first fence and the second
\* (or the end of the text).
AfterFirstFence(s) ==
    LET a == Min(Positions(s, FENCE))
        later == {i \in Positions(s, FENCE) : i > a}
        b == IF later = {} THEN Len(s) + 1 ELSE Min(later)
    IN  SubSeq(s, a + 1, b - 1)

\* code.split("\n", 1)[1]: what follows the first newline.
AfterFirstNewline(s) == SubSeq(s, Min(Positions(s, NL)) + 1, Len(s))

\* Words whose first character is "c": code.startswith("cpp") or
\* code.startswith("c").
CWords == {"cpp", "c", "cmake", "char"}

Raised == [ok |-> FALSE, code |-> <<>>]

\* builder.py extract_code: the first line after the fence is always
\* dropped; a response without a fence is returned as it is.
extract_code(s) ==
    IF Positions(s, FENCE) = {} THEN [ok |-> TRUE, code |-> s]
    ELSE IF Positions(AfterFirstFence(s), NL) = {} THEN Raised
    ELSE [ok |-> TRUE, code |-> Strip(AfterFirstNewline(AfterFirstFence(s)))]

\* builder_v3.py / builder_v4.py: the first line after the fence is dropped
\* only when it starts with "c"; the written text is code.strip().
clean_code_block(s) ==
    IF Positions(s, FENCE) = {} THEN [ok |-> TRUE, code |-> Strip(s)]
    ELSE LET code == AfterFirstFence(s)
         IN  IF code # <<>> /\ Head(code) \in CWords
             THEN IF Positions(code, NL) = {} THEN Raised
                  ELSE [ok |-> TRUE, code |-> Strip(AfterFirstNewline(code))]
             ELSE [ok |-> TRUE, code |-> Strip(code)]

---------------------------------------------------------------------------
(* The working tree: a function from the names of the files that exist to
   their content *)

Exists(d, p) == p \in DOMAIN d

WriteFile(d, p, c) ==
    [n \in DOMAIN d \cup {p} |-> IF n = p THEN c ELSE d[n]]

Bak(p) == p \o ".bak"

\* shutil.copy(p, p + ".bak")
Backup(d, p) == WriteFile(d, Bak(p), d[p])

\* open(p, "w") raises when the directory of p does not exist.
Writable(p) == p \notin {"nodir/x.cpp", "nodir/x.cpp.bak"}

\* builder_v3.py parse_and_apply_fixes, one (filename, content) pair: the
\* backup of an existing file, then the write.
apply_block_v3(d, b) ==
    LET x == clean_code_block(b.content)
        d1 == IF Exists(d, b.path) THEN Backup(d, b.path) ELSE d
    IN  IF ~x.ok THEN [ok |-> FALSE, disk |-> d]
        ELSE IF ~Writable(b.path) THEN [ok |-> FALSE, disk |-> d1]
        ELSE [ok |-> TRUE, disk |-> WriteFile(d1, b.path, x.code)]

\* builder_v4.py apply_fixes, one pair: the write alone.
apply_block_v4(d, b) ==
    LET x == clean_code_block(b.content)
    IN  IF ~x.ok \/ ~Writable(b.path) THEN [ok |-> FALSE, disk |-> d]
        ELSE [ok |-> TRUE, disk |-> WriteFile(d, b.path, x.code)]

apply_block(v, d, b) ==
    IF v = "v3" THEN apply_block_v3(d, b) ELSE apply_block_v4(d, b)

\* The loop over the pairs: an exception ends it and keeps what was written.
RECURSIVE ApplyBlocks(_, _, _)
ApplyBlocks(v, d, bs) ==
    IF bs = <<>> THEN [ok |-> TRUE, disk |-> d]
    ELSE LET r == apply_block(v, d, Head(bs))
         IN  IF r.ok THEN ApplyBlocks(v, r.disk, Tail(bs)) ELSE r

\* parse_and_apply_fixes / apply_fixes: no marker, nothing written.
apply_fixes(v, d, s) == ApplyBlocks(v, d, SplitBlocks(s, 1))

\* builder.py build_project steps 6-7: extract, back the culprit file up,
\* overwrite it.
apply_fix_v1(d, p, s) ==
    LET x == extract_code(s)
    IN  IF ~x.ok THEN [ok |-> FALSE, disk |-> d]
        ELSE [ok |-> TRUE, disk |-> WriteFile(Backup(d, p), p, x.code)]

---------------------------------------------------------------------------
(* Context gathering *)

DQ == "\""

\* dict insertion: a key already present keeps its place.
DictAdd(keys, k) ==
    IF \E i \in 1..Len(keys) : keys[i] = k THEN keys ELSE Append(keys, k)

\* The files os.walk(".") offers get_all_source_files, in walk order: the
\* directory as os.walk names it (root) and as normpath names it (dir), the
\* file name and os.path.splitext(file)[1].
WalkOrder ==
    << [root |-> ".",         dir |-> "",        file |-> "main.cpp",
        ext |-> ".cpp"],
       [root |-> ".",         dir |-> "",        file |-> "main.cpp.bak",
        ext |-> ".bak"],
       [root |-> ".",         dir |-> "",        file |-> "new.cpp",
        ext |-> ".cpp"],
       [root |-> ".",         dir |-> "",        file |-> "util.h",
        ext |-> ".h"],
       [root |-> ".",         dir |-> "",        file |-> "types.h",
        ext |-> ".h"],
       [root |-> ".",         dir |-> "",        file |-> "deep.h",
        ext |-> ".h"],
       [root |-> ".",         dir |-> "",        file |-> "CMakeLists.txt",
        ext |-> ".txt"],
       [root |-> "./.git",    dir |-> ".git",    file |-> "hook.c",
        ext |-> ".c"],
       [root |-> "./build",   dir |-> "build",   file |-> "gen.cpp",
        ext |-> ".cpp"],
       [root |-> "./rebuild", dir |-> "rebuild", file |-> "impl.cpp",
        ext |-> ".cpp"],
       [root |-> "./src",     dir |-> "src",     file |-> "lib.cpp",
        ext |-> ".cpp"] >>

\* os.path.join(root, file)
WalkPath(f) == f.root \o "/" \o f.file

\* The name under which the tree holds the file.
WalkKey(f) == IF f.dir = "" THEN f.file ELSE f.dir \o "/" \o f.file

\* os.path.normpath of a relative path: a leading "./" is dropped.
NormPath(h) ==
    LET is == {i \in DOMAIN WalkOrder : WalkPath(WalkOrder[i]) = h}
    IN  IF is = {} THEN h ELSE WalkKey(WalkOrder[CHOOSE i \in is : TRUE])

\* INCLUDE_PATTERN  #include\s+"([^"]+)"  at i: the index of the closing
\* quote, or 0.
IncludeEnd(s, i) ==
    LET w == RunEnd(s, i + 1, WS)
        e == RunEndNot(s, w + 2, {DQ})
    IN  IF /\ Tok(s, i) = "#include"
           /\ w >= i + 1
           /\ Tok(s, w + 1) = DQ
           /\ e >= w + 2
           /\ Tok(s, e + 1) = DQ
        THEN e + 1 ELSE 0

IncludeName(s, i) ==
    LET w == RunEnd(s, i + 1, WS)
    IN  Join(SubSeq(s, w + 2, IncludeEnd(s, i) - 1))

\* INCLUDE_PATTERN.findall(source_code) from p on: the names, in order.
RECURSIVE FindIncludes(_, _)
FindIncludes(s, p) ==
    LET ms == {i \in p..Len(s) : IncludeEnd(s, i) # 0}
        m  == Min(ms)
    IN  IF ms = {} THEN <<>>
        ELSE <<IncludeName(s, m)>> \o FindIncludes(s, IncludeEnd(s, m) + 1)

\* builder_v3.py get_related_headers: the headers that exist, keyed by
\* their normalised path.
RECURSIVE HeadersOf(_, _, _)
HeadersOf(d, names, acc) ==
    IF names = <<>> THEN acc
    ELSE LET full == NormPath(Head(names))
         IN  HeadersOf(d, Tail(names),
                       IF Exists(d, full) THEN DictAdd(acc, full) ELSE acc)

get_related_headers(d, p) == HeadersOf(d, FindIncludes(d[p], 1), <<>>)

\* str.splitlines()
RECURSIVE SplitLines(_)
SplitLines(s) ==
    IF s = <<>> THEN <<>>
    ELSE IF Positions(s, NL) = {} THEN <<s>>
    ELSE LET n == Min(Positions(s, NL))
         IN  <<SubSeq(s, 1, n - 1)>> \o SplitLines(SubSeq(s, n + 1, Len(s)))

\* '#include "' in line
HasIncludeQuote(l) ==
    \E i \in 1..Len(l) :
        l[i] = "#include" /\ Tok(l, i + 1) = " " /\ Tok(l, i + 2) = DQ

\* line.split('"')[1]
FirstQuoted(l) ==
    LET a == Min(Positions(l, DQ))
        later == {i \in Positions(l, DQ) : i > a}
        b == IF later = {} THEN Len(l) + 1 ELSE Min(later)
    IN  Join(SubSeq(l, a + 1, b - 1))

\* builder_v4.py analyze_and_fix, compile branch: the broken file, then the
\* quoted name of every include line whose file exists (no normpath).
RECURSIVE IncludeLines(_, _, _)
IncludeLines(d, ls, acc) ==
    IF ls = <<>> THEN acc
    ELSE LET h == FirstQuoted(Head(ls))
         IN  IncludeLines(d, Tail(ls),
                 IF HasIncludeQuote(Head(ls)) /\ Exists(d, NormPath(h))
                 THEN DictAdd(acc, h) ELSE acc)

compile_context_v4(d, p) == IncludeLines(d, SplitLines(d[p]), <<p>>)

EXTENSIONS == {".cpp", ".c", ".cc", ".cxx", ".hpp", ".h"}

\* "build" in root or ".git" in root: a test on the characters of the
\* directory path.
SkippedRoot(r) == r \in {"./build", "./.git", "./rebuild"}

\* get_all_source_files: the files that exist, with a source extension, in
\* a directory that is not skipped.
RECURSIVE SourcesFrom(_, _)
SourcesFrom(d, i) ==
    IF i > Len(WalkOrder) THEN <<>>
    ELSE LET f == WalkOrder[i]
         IN  (IF /\ Exists(d, WalkKey(f))
                 /\ ~SkippedRoot(f.root)
                 /\ f.ext \in EXTENSIONS
              THEN <<WalkPath(f)>> ELSE <<>>) \o SourcesFrom(d, i + 1)

get_all_source_files(d) == SourcesFrom(d, 1)

\* symbol.split("(")[0].strip()
CleanSymbol(sym) ==
    LET ps == Positions(sym, "(")
    IN  Strip(IF ps = {} THEN sym ELSE SubSeq(sym, 1, Min(ps) - 1))

\* clean_symbol in content
Contains(s, sub) ==
    \E i \in 0..(Len(s) - Len(sub)) : SubSeq(s, i + 1, i + Len(sub)) = sub

\* search_symbol_in_project: every source file whose text holds the symbol.
RECURSIVE MatchesIn(_, _, _)
MatchesIn(d, names, sym) ==
    IF names = <<>> THEN <<>>
    ELSE (IF Contains(d[NormPath(Head(names))], sym)
          THEN <<Head(names)>> ELSE <<>>)
         \o MatchesIn(d, Tail(names), sym)

search_symbol_in_project(d, sym) ==
    MatchesIn(d, get_all_source_files(d), CleanSymbol(sym))

\* Mutant: the build descriptor is sent along with the matches.
link_context_with_descriptor(d, sym) ==
    search_symbol_in_project(d, sym) \o <<"CMakeLists.txt">>

\* builder_v4.py analyze_and_fix, linker branch: the matches, or
\* CMakeLists.txt alone when nothing matches.
link_context_v4(d, sym) ==
    IF search_symbol_in_project(d, sym) = <<>> THEN <<"CMakeLists.txt">>
    ELSE search_symbol_in_project(d, sym)

---------------------------------------------------------------------------
(* The inputs of a session: the working tree, the logs the build tool can
   print and the texts the oracle can answer *)

MainSource ==
    << "#include", " ", DQ, "util.h", DQ, NL,
       "#include", " ", DQ, "missing.h", DQ, NL,
       "helper", "(", ")" >>

InitialTree ==
    [n \in {"CMakeLists.txt", "main.cpp", "util.h"} |->
        IF n = "main.cpp" THEN MainSource
        ELSE IF n = "util.h" THEN <<"void", " ", "helper", "(", ")">>
        ELSE <<"project">>]

TreeWithoutCMake ==
    [n \in {"main.cpp", "util.h"} |-> InitialTree[n]]

ErrorLine(path, msg) ==
    <<path, ":", "12", ":", "3", ":", " ", "error", ":", " ", msg>>

LogCompileMain == ErrorLine("main.cpp", "expected ;")

LogCompileGone ==
    <<"gone.cpp", ":", "1", ":", "1", ":", " ", "fatal", " ", "error", ":",
      " ", "no such file">>

LogLink ==
    <<"ld", ":", " ", "main.o", ":", " ", "undefined reference to", " ",
      BQ, "helper", "(", "int", ")", "'">>

LogLinkElsewhere ==
    <<"ld", ":", " ", "error", ":", " ", "undefined symbol", ":", " ",
      "nosuch">>

LogUnknown == <<"make", ":", " ", "***", " ", "Error 2">>

SessionLogs ==
    {LogCompileMain, LogCompileGone, LogLink, LogLinkElsewhere, LogUnknown}

FixBlock(path, body) ==
    <<"FILE", ":", " ", path, NL, FENCE, "cpp", NL>> \o body
        \o <<NL, FENCE, NL>>

RespEmpty == <<>>

RespProse == <<"no", " ", "fix">>

RespFenceOnly == <<"try", ":", NL, FENCE, "cpp", NL, "X1", NL, FENCE>>

RespFixMain == FixBlock("main.cpp", <<"X1">>)

RespFixMainAgain == FixBlock("main.cpp", <<"X2">>)

RespTwice == FixBlock("main.cpp", <<"X1">>) \o FixBlock("main.cpp", <<"X2">>)

RespNewFile == FixBlock("main.cpp", <<"X1">>) \o FixBlock("new.cpp", <<"Y1">>)

RespNoNewline == <<"FILE", ":", " ", "main.cpp", " ", FENCE, "cpp", FENCE>>

RespBadDir ==
    FixBlock("util.h", <<"H1">>) \o FixBlock("nodir/x.cpp", <<"Y1">>)
        \o FixBlock("new.cpp", <<"Y1">>)

SessionResponses ==
    {RespEmpty, RespProse, RespFenceOnly, RespFixMain, RespFixMainAgain,
     RespTwice, RespNewFile, RespNoNewline, RespBadDir}

---------------------------------------------------------------------------
(* The repair loop *)

Versions == {"v1", "v3", "v4"}

MAX_ATTEMPTS_V1 == 3

MAX_ATTEMPTS_V3 == 5

MAX_ATTEMPTS_V4 == 5

MAX_ATTEMPTS(v) ==
    IF v = "v1" THEN MAX_ATTEMPTS_V1
    ELSE IF v = "v3" THEN MAX_ATTEMPTS_V3 ELSE MAX_ATTEMPTS_V4

\* History, read by no action: for each kind of event, the counters and the
\* tree as they were when it first happened in the session.
Events == {"configure", "unclassified", "readfail", "success"}

NoSnap ==
    [set |-> FALSE, builds |-> 0, oracleCalls |-> 0, disk |-> InitialTree]

Marked(kind, b) ==
    IF marks[kind].set THEN marks
    ELSE [marks EXCEPT ![kind] = [set |-> TRUE, builds |-> b,
                                  oracleCalls |-> oracleCalls, disk |-> disk]]

Init ==
    /\ ver \in Versions
    /\ pc = "loop"
    /\ attempt = 1
    /\ builds = 0
    /\ oracleCalls = 0
    /\ log = <<>>
    /\ diag = NoMatch
    /\ bundle = <<>>
    /\ response = <<>>
    /\ disk \in {InitialTree, TreeWithoutCMake}
    /\ outcome = "Running"
    /\ exitCode = "none"
    /\ marks = [k \in Events |-> NoSnap]

\* sys.exit(code), or an uncaught exception (exit status 1).
Exit(how, code) ==
    /\ pc' = "done"
    /\ outcome' = how
    /\ exitCode' = code

\* build_project returns False (builder.py, builder_v3.py) or the loop body
\* ends (builder_v4.py): the next iteration.
NextAttempt ==
    /\ pc' = "loop"
    /\ attempt' = attempt + 1
    /\ log' = <<>>
    /\ diag' = NoMatch
    /\ bundle' = <<>>
    /\ response' = <<>>
    /\ UNCHANGED <<outcome, exitCode>>

\* What main does once the loop has used every attempt: builder.py and
\* builder_v3.py call sys.exit(1); builder_v4.py falls off the end of main.
ExhaustedExitCode(v) == IF v = "v4" THEN "0" ELSE "1"

\* Mutant: the loop allows one iteration more.
OneAttemptMore(v, a) == a <= MAX_ATTEMPTS(v) + 1

\* while attempt <= MAX_ATTEMPTS / for attempt in range(1, MAX_ATTEMPTS + 1)
WithinAttempts(v, a) == a <= MAX_ATTEMPTS(v)

LoopHead ==
    /\ pc = "loop"
    /\ IF WithinAttempts(ver, attempt)
       THEN /\ pc' = "configure"
            /\ UNCHANGED <<outcome, exitCode>>
       ELSE Exit("ExhaustedAttempts", ExhaustedExitCode(ver))
    /\ UNCHANGED <<ver, attempt, builds, oracleCalls, log, diag, bundle,
                   response, disk, marks>>

\* builder.py and builder_v3.py give the attempt up when CMakeLists.txt is
\* missing; builder_v4.py does not look.
ChecksCMakeLists(v) == v \in {"v1", "v3"}

\* Only builder.py reads the result of the configure step.
ReadsConfigureResult(v) == v = "v1"

Configure ==
    /\ pc = "configure"
    /\ IF ChecksCMakeLists(ver) /\ ~Exists(disk, "CMakeLists.txt")
       THEN NextAttempt /\ UNCHANGED marks
       ELSE \E ok \in BOOLEAN :
              /\ Exists(disk, "CMakeLists.txt") \/ ~ok
              /\ marks' = IF ok THEN marks ELSE Marked("configure", builds)
              /\ IF ~ok /\ ReadsConfigureResult(ver)
                 THEN NextAttempt
                 ELSE /\ pc' = "build"
                      /\ UNCHANGED <<attempt, log, diag, bundle, response,
                                     outcome, exitCode>>
    /\ UNCHANGED <<ver, builds, oracleCalls, disk>>

\* Mutant: main ignores the result of build_project.
IgnoresSuccess(ok) == FALSE

\* main after build_project: a successful build ends the session.
StopsOnSuccess(ok) == ok

Build ==
    /\ pc = "build"
    /\ builds' = builds + 1
    /\ \E ok \in BOOLEAN :
         IF ok
         THEN /\ marks' = Marked("success", builds + 1)
              /\ IF StopsOnSuccess(ok)
                 THEN /\ Exit("Succeeded", "0")
                      /\ UNCHANGED <<attempt, log, diag, bundle, response>>
                 ELSE NextAttempt
         ELSE /\ \E l \in SessionLogs : log' = l
              /\ pc' = "diagnose"
              /\ UNCHANGED <<attempt, diag, bundle, response, outcome,
                             exitCode, marks>>
    /\ UNCHANGED <<ver, oracleCalls, disk>>

\* An unclassified log ends the session in builder_v4.py only; the older
\* versions return False and the loop goes on.
StopsOnUnclassified(v) == v = "v4"

Diagnose ==
    /\ pc = "diagnose"
    /\ marks' = IF analyze_and_fix_classify(log) = NoMatch
                THEN Marked("unclassified", builds) ELSE marks
    /\ IF Classify(ver, log) = NoMatch
       THEN /\ IF StopsOnUnclassified(ver)
               THEN /\ Exit("Unclassifiable", "1")
                    /\ UNCHANGED <<attempt, log, diag, bundle, response>>
               ELSE NextAttempt
       ELSE /\ diag' = Classify(ver, log)
            /\ pc' = "gather"
            /\ UNCHANGED <<attempt, log, bundle, response, outcome, exitCode>>
    /\ UNCHANGED <<ver, builds, oracleCalls, disk>>

\* builder.py and builder_v3.py catch FileNotFoundError and return False;
\* builder_v4.py lets it escape.
CatchesReadFailure(v) == v \in {"v1", "v3"}

\* The context of a compile error on an existing file.
CompileContext(v, d, p) ==
    IF v = "v1" THEN <<p>>
    ELSE IF v = "v3" THEN <<p>> \o get_related_headers(d, p)
    ELSE compile_context_v4(d, p)

Gather ==
    /\ pc = "gather"
    /\ IF diag.kind = "compile"
       THEN IF ~Exists(disk, diag.path)
            THEN /\ marks' = Marked("readfail", builds)
                 /\ IF CatchesReadFailure(ver)
                    THEN NextAttempt
                    ELSE /\ Exit("HardFailure", "1")
                         /\ UNCHANGED <<attempt, log, diag, bundle, response>>
            ELSE /\ bundle' = CompileContext(ver, disk, diag.path)
                 /\ pc' = "oracle"
                 /\ UNCHANGED <<attempt, log, diag, response, outcome,
                                exitCode, marks>>
       ELSE LET found == search_symbol_in_project(disk, diag.symbol)
            IN  IF found = <<>> /\ ~Exists(disk, "CMakeLists.txt")
                THEN /\ Exit("HardFailure", "1")
                     /\ UNCHANGED <<attempt, log, diag, bundle, response,
                                    marks>>
                ELSE /\ bundle' = link_context_v4(disk, diag.symbol)
                     /\ pc' = "oracle"
                     /\ UNCHANGED <<attempt, log, diag, response, outcome,
                                    exitCode, marks>>
    /\ UNCHANGED <<ver, builds, oracleCalls, disk>>

\* get_ai_fix: the oracle answers with any text.
RequestFix ==
    /\ pc = "oracle"
    /\ oracleCalls' = oracleCalls + 1
    /\ response' \in SessionResponses
    /\ pc' = "apply"
    /\ UNCHANGED <<ver, attempt, builds, log, diag, bundle, disk, outcome,
                   exitCode, marks>>

\* main of builder_v4.py: "if fix_response:" is false for the empty text,
\* and the session exits.
ExitsOnEmptyResponse(v, s) == v = "v4" /\ s = <<>>

\* The response applied to the tree by each version.
ApplyResponse(v, d, s, p) ==
    IF v = "v1" THEN apply_fix_v1(d, p, s) ELSE apply_fixes(v, d, s)

Apply ==
    /\ pc = "apply"
    /\ IF ExitsOnEmptyResponse(ver, response)
       THEN /\ Exit("NoFix", "1")
            /\ UNCHANGED <<attempt, log, diag, bundle, response, disk>>
       ELSE LET r == ApplyResponse(ver, disk, response,
                                   IF diag.kind = "compile" THEN diag.path
                                   ELSE "")
            IN  /\ disk' = r.disk
                /\ IF r.ok THEN NextAttempt
                   ELSE /\ Exit("HardFailure", "1")
                        /\ UNCHANGED <<attempt, log, diag, bundle, response>>
    /\ UNCHANGED <<ver, builds, oracleCalls, marks>>

Next ==
    \/ LoopHead
    \/ Configure
    \/ Build
    \/ Diagnose
    \/ Gather
    \/ RequestFix
    \/ Apply

Spec == Init /\ [][Next]_vars

---------------------------------------------------------------------------
(* The classifier on its own: every log of up to MaxLogLines lines *)

MaxLogLines == 3

LineWarning ==
    <<"main.cpp", ":", "12", ":", "3", ":", " ", "warning", ":", " ",
      "unused">>

LineCompileWithLinkPhrase ==
    <<"util.h", ":", "12", ":", "3", ":", " ", "error", ":", " ",
      "undefined reference to", " ", BQ, "f", "'">>

LineHead == <<"x.cpp", ":", "1", ":", "3", ":">>

LineTail == <<"error", ":", " ", "y">>

LogLines ==
    {LogCompileMain, LogCompileGone, LogLink, LogLinkElsewhere, LogUnknown,
     LineWarning, LineCompileWithLinkPhrase, LineHead, LineTail}

RECURSIVE LogsOfLines(_)
LogsOfLines(n) ==
    IF n = 1 THEN LogLines
    ELSE {l \o <<NL>> \o t : l \in LogsOfLines(n - 1), t \in LogLines}

ClassifyLogs == UNION {LogsOfLines(n) : n \in 1..MaxLogLines}

InitClassify ==
    /\ ver = "v4"
    /\ pc = "classify"
    /\ log \in ClassifyLogs
    /\ attempt = 1
    /\ builds = 1
    /\ oracleCalls = 0
    /\ diag = NoMatch
    /\ bundle = <<>>
    /\ response = <<>>
    /\ disk = InitialTree
    /\ outcome = "Running"
    /\ exitCode = "none"
    /\ marks = [k \in Events |-> NoSnap]

ClassifyStep ==
    /\ pc = "classify"
    /\ diag' = Classify(ver, log)
    /\ pc' = "classified"
    /\ UNCHANGED <<ver, attempt, builds, oracleCalls, log, bundle, response,
                   disk, outcome, exitCode, marks>>

SpecClassify == InitClassify /\ [][ClassifyStep]_vars

---------------------------------------------------------------------------
(* Context gathering on its own: one failed build, over project trees with
   sources in several directories and several shapes of include lines *)

Include(name) == <<"#include", " ", DQ, name, DQ, NL>>

MainThreeIncludes ==
    Include("util.h") \o Include("missing.h") \o Include("types.h")
        \o <<"helper", "(", ")">>

MainRepeatedInclude ==
    Include("util.h") \o Include("types.h") \o Include("util.h")
        \o <<"helper", "(", ")">>

\* two blanks between #include and the quoted name
MainWideInclude ==
    <<"#include", " ", " ", DQ, "util.h", DQ, NL, "helper", "(", ")">>

MainDotInclude ==
    Include("./util.h") \o Include("util.h") \o <<"helper", "(", ")">>

MainSources ==
    {MainSource, MainThreeIncludes, MainRepeatedInclude, MainWideInclude,
     MainDotInclude}

\* Sources outside the top directory; each of them names helper.
OutsideTop == {".git/hook.c", "build/gen.cpp", "rebuild/impl.cpp", "src/lib.cpp"}

GatherTree(m, extra) ==
    [n \in {"CMakeLists.txt", "main.cpp", "util.h", "types.h", "deep.h"}
            \cup extra |->
        IF n = "main.cpp" THEN m
        ELSE IF n = "util.h" THEN <<"void", " ", "helper", "(", ")">>
        ELSE IF n = "types.h" THEN Include("deep.h")
        ELSE IF n = "deep.h" THEN <<"struct", " ", "deep">>
        ELSE IF n = "CMakeLists.txt" THEN <<"project">>
        ELSE <<"int", " ", "helper", "(", "int", ")">>]

GatherTrees == {GatherTree(m, extra) : m \in MainSources,
                                       extra \in SUBSET OutsideTop}

InitGather ==
    /\ ver \in Versions
    /\ pc = "diagnose"
    /\ log \in SessionLogs
    /\ disk \in GatherTrees
    /\ attempt = 1
    /\ builds = 1
    /\ oracleCalls = 0
    /\ diag = NoMatch
    /\ bundle = <<>>
    /\ response = <<>>
    /\ outcome = "Running"
    /\ exitCode = "none"
    /\ marks = [k \in Events |-> NoSnap]

NextGather ==
    \/ Diagnose
    \/ Gather

SpecGather == InitGather /\ [][NextGather]_vars

---------------------------------------------------------------------------
(* The apply step on its own: one response of up to MaxBlocks blocks, with
   every language tag, with and without a fence, and with the characters
   FILE: in the middle of a line *)

MaxBlocks == 2

Tags == {<<>>, <<"cpp">>, <<"c">>, <<"h">>, <<"hpp">>, <<"cmake">>}

\* "FILE:" in a comment of the code
BodyNamingFile == <<"X1", " ", "//", " ", "FILE", ":", " ", "old.cpp">>

Bodies == {<<"X1">>, BodyNamingFile}

TagBlock(path, tag, body) ==
    <<"FILE", ":", " ", path, NL, FENCE>> \o tag \o <<NL>> \o body
        \o <<NL, FENCE, NL>>

PlainBlock(path, body) == <<"FILE", ":", " ", path, NL>> \o body \o <<NL>>

Blocks ==
    {TagBlock(p, t, b) : p \in {"main.cpp", "new.cpp"}, t \in Tags,
                         b \in Bodies}
        \cup {PlainBlock(p, b) : p \in {"main.cpp", "new.cpp"}, b \in Bodies}

\* "FILE:" in the prose before the first block
Preambles == {<<>>, <<"see", " ", "FILE", ":", " ", "notes.txt", NL>>}

RECURSIVE BlocksUpTo(_)
BlocksUpTo(n) ==
    IF n = 0 THEN {<<>>}
    ELSE BlocksUpTo(n - 1)
             \cup {r \o b : r \in BlocksUpTo(n - 1), b \in Blocks}

ApplyResponses ==
    SessionResponses
        \cup {pre \o r : pre \in Preambles, r \in BlocksUpTo(MaxBlocks)}

InitApply ==
    /\ ver \in Versions
    /\ pc = "apply"
    /\ response \in ApplyResponses
    /\ log = LogCompileMain
    /\ diag = Classify(ver, LogCompileMain)
    /\ disk = InitialTree
    /\ bundle = CompileContext(ver, InitialTree, "main.cpp")
    /\ attempt = 1
    /\ builds = 1
    /\ oracleCalls = 1
    /\ outcome = "Running"
    /\ exitCode = "none"
    /\ marks = [k \in Events |-> NoSnap]

SpecApply == InitApply /\ [][Apply]_vars

---------------------------------------------------------------------------
(* Claims *)

Snap(kind) == marks[kind]

\* The session went on after the event: a build, an oracle request or a
\* change of the tree came after it.
QuietSince(kind) ==
    /\ builds = Snap(kind).builds
    /\ oracleCalls = Snap(kind).oracleCalls
    /\ disk = Snap(kind).disk

\* C1: a session in which at least one build ran, every build failed with a
\* classifiable error and no other fatal condition arose performs exactly
\* MAX_ATTEMPTS builds and ends in ExhaustedAttempts, whatever the oracle
\* returned.
C1_ExactlyMaxBuilds ==
    ( /\ pc = "done"
      /\ builds >= 1
      /\ \A k \in Events : ~Snap(k).set )
    => (outcome = "ExhaustedAttempts" /\ builds = MAX_ATTEMPTS(ver))

\* C2: the session exits with status 0 exactly when a build succeeded; every
\* other way of ending, running out of attempts included, exits non-zero.
C2_ZeroOnlyOnSuccess ==
    pc = "done" => (exitCode = "0" <=> outcome = "Succeeded")

C4_UnclassifiableIsTerminal ==
    Snap("unclassified").set => QuietSince("unclassified")

\* C5: once the configure step exited non-zero, no build runs (on that
\* configure result or in a later attempt), the oracle is never called and
\* no file is patched.
C5_ConfigureFailureIsTerminal ==
    Snap("configure").set => QuietSince("configure")

\* The paths named by the FILE: markers of a response.
NamedPaths(s) ==
    {SplitBlocks(s, 1)[i].path : i \in 1..Len(SplitBlocks(s, 1))}

\* C6: in the versions that read FILE: markers (builder_v3.py,
\* builder_v4.py), applying a response without any marker changes nothing in
\* the tree and does not end the session: the loop goes on to the next
\* attempt.
C6_NoMarkerNoEffect ==
    [][ (pc = "apply" /\ ver # "v1" /\ NamedPaths(response) = {})
        => (disk' = disk /\ pc' = "loop" /\ attempt' = attempt + 1) ]_vars

\* C7: in the versions that read FILE: markers, after a response was
\* applied, every path it names that existed when the apply began has a .bak
\* holding the content it had then, and every path it names that did not
\* exist was created without a .bak.
C7_BackupHoldsPrePatch ==
    [][ (pc = "apply" /\ pc' = "loop" /\ ver # "v1")
        => \A p \in NamedPaths(response) :
             IF Exists(disk, p)
             THEN Exists(disk', Bak(p)) /\ disk'[Bak(p)] = disk[p]
             ELSE Exists(disk', p) /\ ~Exists(disk', Bak(p)) ]_vars

\* The paths an attempt of a backup-taking version rewrites.
Touched ==
    IF ver = "v1" THEN {diag.path} ELSE NamedPaths(response)

\* C8: in the versions that take backups, an attempt leaves one backup per
\* rewritten path, holding the content the path had just before this
\* attempt (overwriting the backup of an earlier attempt), adds no other
\* file, and leaves the backups of the other paths alone.
C8_OneBackupOverwritten ==
    [][ (pc = "apply" /\ pc' = "loop" /\ ver # "v4")
        => /\ \A p \in Touched :
                Exists(disk, p)
                    => Exists(disk', Bak(p)) /\ disk'[Bak(p)] = disk[p]
           /\ DOMAIN disk' \ DOMAIN disk
                \subseteq Touched \cup {Bak(p) : p \in Touched}
           /\ \A n \in DOMAIN disk :
                n \notin Touched \cup {Bak(p) : p \in Touched}
                    => disk'[n] = disk[n] ]_vars

\* C9: once the file named by a compile error could not be read, no build,
\* oracle request or file write happens in the session any more.
C9_ReadFailureIsTerminal ==
    Snap("readfail").set => QuietSince("readfail")

\* The line starts at which the compile grammar matches.
CompileLineStarts(s) ==
    {i \in 1..Len(s) : CompileMatchAt(s, i) # NoMatch}

\* The line starts whose line, taken alone, matches the compile grammar.
OwnLineMatches(s) ==
    {i \in 1..Len(s) :
        /\ LineStart(s, i)
        /\ CompileMatchAt(SubSeq(s, i, RunEndNot(s, i, {NL})), 1) # NoMatch}

HasLinkPhrase(s) == \E i \in 1..Len(s) : LinkMatchAt(s, i) # NoMatch

BUILD_DIR == "build"

OutsideBuildAndVcs(f) == f.dir \notin {BUILD_DIR, ".git"}

InBundle(p) == \E i \in 1..Len(bundle) : bundle[i] = p

\* C11: after a link error, every file of the tree that lies outside the
\* build-output directory and the version-control metadata, has a source
\* extension and holds the bare symbol is in the bundle, whatever the
\* directories on its path are called.
C11_NoMatchingFileMissed ==
    (pc = "oracle" /\ diag.kind = "link") =>
        \A i \in DOMAIN WalkOrder :
            LET f == WalkOrder[i]
            IN  ( /\ Exists(disk, WalkKey(f))
                  /\ OutsideBuildAndVcs(f)
                  /\ f.ext \in EXTENSIONS
                  /\ Contains(disk[WalkKey(f)], CleanSymbol(diag.symbol)) )
                => InBundle(WalkPath(f))


\* A local include directive at i of text s: #include, blanks, a quoted
\* name on the same line.  The index of the closing quote, or 0.
DirectiveEnd(s, i) ==
    LET w == RunEnd(s, i + 1, {" "})
        e == RunEndNot(s, w + 2, {DQ, NL})
    IN  IF /\ Tok(s, i) = "#include"
           /\ Tok(s, w + 1) = DQ
           /\ e >= w + 2
           /\ Tok(s, e + 1) = DQ
        THEN e + 1 ELSE 0

\* The files the local include directives of s name, in textual order.
RECURSIVE DirectiveTargets(_, _)
DirectiveTargets(s, p) ==
    LET ms == {i \in p..Len(s) : DirectiveEnd(s, i) # 0}
        m  == Min(ms)
        e  == DirectiveEnd(s, m)
        w  == RunEnd(s, m + 1, {" "})
    IN  IF ms = {} THEN <<>>
        ELSE <<NormPath(Join(SubSeq(s, w + 2, e - 1)))>>
                 \o DirectiveTargets(s, e + 1)

\* Those of the targets that exist, each once, at its first appearance.
RECURSIVE ExistingOnce(_, _, _)
ExistingOnce(d, names, acc) ==
    IF names = <<>> THEN acc
    ELSE ExistingOnce(d, Tail(names),
             IF Exists(d, Head(names)) THEN DictAdd(acc, Head(names))
             ELSE acc)

BundleFiles == [i \in 1..Len(bundle) |-> NormPath(bundle[i])]

\* C12: after a compile error on a readable file f (builder_v3.py,
\* builder_v4.py) the bundle is f, then the existing files named by the
\* local include directives of f, each once, in the order of their first
\* appearance; missing targets and the includes of the headers are left out.
C12_SelfThenExistingIncludes ==
    (pc = "oracle" /\ diag.kind = "compile" /\ ver \in {"v3", "v4"}) =>
        BundleFiles =
            ExistingOnce(disk, DirectiveTargets(disk[diag.path], 1),
                         <<diag.path>>)


\* A marker that stands at the start of a line.
LineMarker(s, i) == LineStart(s, i) /\ MarkerEnd(s, i) # 0

NextLineMarker(s, p) ==
    LET ms == {i \in p..Len(s) : LineMarker(s, i)}
    IN  IF ms = {} THEN 0 ELSE Min(ms)

\* One entry per marker at the start of a line: its path, and the text up
\* to the next such marker or the end.
RECURSIVE LineBlocks(_, _)
LineBlocks(s, p) ==
    LET m == NextLineMarker(s, p)
        e == MarkerEnd(s, m)
        n == NextLineMarker(s, e + 1)
        stop == IF n = 0 THEN Len(s) ELSE n - 1
    IN  IF m = 0 THEN <<>>
        ELSE <<[path |-> MarkerPath(s, m), content |-> SubSeq(s, e + 1, stop)]>>
             \o (IF n = 0 THEN <<>> ELSE LineBlocks(s, n))

\* C13: the entries applied (builder_v3.py, builder_v4.py) are those of the
\* FILE: markers at the start of a line, each with the text up to the next
\* such marker; FILE: in the middle of a line or inside a block starts no
\* entry, and a response without marker changes nothing and raises nothing.
C13_EntriesAreLineMarkers ==
    [][ (pc = "apply" /\ ver \in {"v3", "v4"}) =>
          /\ Len(SplitBlocks(response, 1)) = Len(LineBlocks(response, 1))
          /\ disk' = ApplyBlocks(ver, disk, LineBlocks(response, 1)).disk
          /\ LineBlocks(response, 1) = <<>> => outcome' # "HardFailure" ]_vars


Terminals == {"Succeeded", "ExhaustedAttempts", "Unclassifiable", "HardFailure"}

\* The exit a finished session took.  builder_v4.py has one exit for "no
\* fix" (sys.exit(1) after analyze_and_fix returned nothing); the sessions
\* the model labels NoFix leave through it, like the unclassifiable ones.
ExitTaken == IF outcome = "NoFix" THEN "Unclassifiable" ELSE outcome

\* The steps of one iteration that lie ahead of each stage.
StagesLeft ==
    [s \in {"loop", "configure", "build", "diagnose", "gather", "oracle",
            "apply"} |->
        CASE s = "loop" -> 7 [] s = "configure" -> 6 [] s = "build" -> 5
          [] s = "diagnose" -> 4 [] s = "gather" -> 3 [] s = "oracle" -> 2
          [] OTHER -> 1]

\* The number of steps a session can still take, at most.
StepsLeft ==
    IF pc = "done" THEN 0
    ELSE (MAX_ATTEMPTS(ver) + 1 - attempt) * 7 + StagesLeft[pc]

C14_Bounded ==
    /\ attempt \in 1..(MAX_ATTEMPTS(ver) + 1)
    /\ builds <= MAX_ATTEMPTS(ver)
    /\ builds <= attempt
    /\ pc \in {"configure", "build"} => attempt <= MAX_ATTEMPTS(ver)
    /\ pc = "done" <=> outcome # "Running"
    /\ pc = "done" => ExitTaken \in Terminals

C14_Steps ==
    /\ attempt' # attempt => attempt' = attempt + 1 /\ pc' = "loop"
    /\ pc' = "loop" => attempt' = attempt + 1
    /\ builds' # builds =>
         builds' = builds + 1 /\ pc = "build" /\ attempt <= MAX_ATTEMPTS(ver)
    /\ outcome = "Running"
    /\ StepsLeft' < StepsLeft

Entries == SplitBlocks(response, 1)

\* The entries whose write raises an I/O error.
FailingEntries == {i \in 1..Len(Entries) : ~Writable(Entries[i].path)}

\* The write of entry k is the first thing that fails in this apply.
WriteFailsAt(k) ==
    /\ FailingEntries # {}
    /\ k = Min(FailingEntries)
    /\ \A i \in 1..k : clean_code_block(Entries[i].content).ok

\* The entries before k were written and stay so.
StayWritten(k) ==
    \A i \in 1..(k - 1) :
        /\ Exists(disk', Entries[i].path)
        /\ disk'[Entries[i].path] = clean_code_block(Entries[i].content).code

\* The entries before k that replaced a file have their backup.
StayBackedUp(k) ==
    \A i \in 1..(k - 1) :
        Exists(disk, Entries[i].path) =>
            /\ Exists(disk', Bak(Entries[i].path))
            /\ disk'[Bak(Entries[i].path)] = disk[Entries[i].path]

\* The entries after k were not written.
NotWrittenAfter(k) ==
    \A i \in (k + 1)..Len(Entries) :
        LET p == Entries[i].path
        IN  (\A j \in 1..(k - 1) : Entries[j].path # p) =>
                IF Exists(disk, p) THEN Exists(disk', p) /\ disk'[p] = disk[p]
                ELSE ~Exists(disk', p)

\* C15: when the write of entry k of a response fails with an I/O error
\* (builder_v3.py, builder_v4.py), the entries before k stay written, with
\* their backups, the entries after k are not written, and the session
\* ends at once with a non-zero exit status: no build follows.
C15_PartialWritesKept ==
    [][ \A k \in 1..Len(Entries) :
          (pc = "apply" /\ ver \in {"v3", "v4"} /\ WriteFailsAt(k)) =>
              /\ StayWritten(k)
              /\ StayBackedUp(k)
              /\ NotWrittenAfter(k)
              /\ pc' = "done"
              /\ exitCode' = "1"
              /\ builds' = builds ]_vars


HasFence(c) == Positions(c, FENCE) # {}

\* The text between the line of the first fence and the next fence (or the
\* end): the rest of the opening fence line is left out.
FencedText(c) ==
    LET a    == Min(Positions(c, FENCE))
        nls  == {i \in Positions(c, NL) : i > a}
        from == IF nls = {} THEN Len(c) + 1 ELSE Min(nls) + 1
        cls  == {i \in Positions(c, FENCE) : i >= from}
        to   == IF cls = {} THEN Len(c) ELSE Min(cls) - 1
    IN  SubSeq(c, from, to)

\* What the claim has a block written as.
BlockText(c) == IF HasFence(c) THEN Strip(FencedText(c)) ELSE Strip(c)

\* The last entry of the response for its path.
LastFor(i) == \A j \in (i + 1)..Len(Entries) : Entries[j].path # Entries[i].path

\* C16: after an apply that ran to its end, a file written from a block with
\* a fenced region holds the text between the opening fence line and the
\* closing fence, without the rest of the opening fence line whatever tag it
\* is; a file written from a block without fence holds the trimmed block.
\* For builder.py the whole response is the one block of the broken file.
C16_TagLineNeverWritten ==
    [][ (pc = "apply" /\ pc' = "loop") =>
          IF ver = "v1"
          THEN disk'[diag.path] = BlockText(response)
          ELSE \A i \in 1..Len(Entries) :
                 LastFor(i) =>
                     disk'[Entries[i].path] = BlockText(Entries[i].content)
      ]_vars


\* The files the scan reads, and those of them that hold the bare symbol.
Scanned ==
    {i \in DOMAIN WalkOrder :
        /\ Exists(disk, WalkKey(WalkOrder[i]))
        /\ ~SkippedRoot(WalkOrder[i].root)
        /\ WalkOrder[i].ext \in EXTENSIONS}

ScannedWithSymbol ==
    {WalkPath(WalkOrder[i]) : i \in
        {j \in Scanned : Contains(disk[WalkKey(WalkOrder[j])],
                                  CleanSymbol(diag.symbol))}}

\* C17: after a link error (builder_v4.py) whose bare symbol is in no
\* scanned file, the bundle for the oracle is CMakeLists.txt alone; when
\* scanned files hold the symbol, the bundle is these files, each once, and
\* CMakeLists.txt is not in it.
C17_DescriptorOnlyAsFallback ==
    (pc = "oracle" /\ diag.kind = "link") =>
        IF ScannedWithSymbol = {}
        THEN bundle = <<"CMakeLists.txt">>
        ELSE /\ {bundle[i] : i \in 1..Len(bundle)} = ScannedWithSymbol
             /\ Len(bundle) = Cardinality(ScannedWithSymbol)
             /\ ~InBundle("CMakeLists.txt")

\* C17 witness: a link error on a symbol that no source of a tree with
\* sources in several directories names: CMakeLists.txt is the bundle.
C17_Witness ==
    /\ pc = "oracle"
    /\ diag.kind = "link"
    /\ Exists(disk, "src/lib.cpp")
    /\ ScannedWithSymbol = {}
    /\ bundle = <<"CMakeLists.txt">>


Exhausts == pc' = "done" /\ outcome' = "ExhaustedAttempts"

\* C18: a fix is requested and applied after every failed build, the build
\* of the last attempt included: a session that ends in ExhaustedAttempts
\* has made as many oracle requests as builds, MAX_ATTEMPTS of each, and it
\* ends from the loop head with the tree as the last apply left it and no
\* build in between.
C18_OracleAfterEveryBuild ==
    [][ Exhausts =>
          /\ builds' = MAX_ATTEMPTS(ver)
          /\ oracleCalls' = builds'
          /\ pc = "loop" /\ attempt = MAX_ATTEMPTS(ver) + 1
          /\ disk' = disk /\ builds' = builds ]_vars


\* The paths named by the FILE: markers at line starts of a response.
LinePaths(s) == {LineBlocks(s, 1)[i].path : i \in 1..Len(LineBlocks(s, 1))}

\* The files an apply may touch: the named paths and, where backups are
\* taken (builder_v3.py), their .bak siblings.
MayChange(v, named) ==
    IF v = "v3" THEN named \cup {Bak(p) : p \in named} ELSE named

\* C19: the apply step of an attempt (builder_v3.py, builder_v4.py) creates
\* or changes only files named by the FILE: markers of the attempt's
\* response and, where backups are taken, their .bak siblings; every other
\* file, the files of the bundle included, stays as it was.
C19_OnlyNamedFilesChange ==
    [][ (pc = "apply" /\ ver \in {"v3", "v4"}) =>
          \A n \in DOMAIN disk \cup DOMAIN disk' :
              n \notin MayChange(ver, LinePaths(response)) =>
                  /\ Exists(disk, n)
                  /\ Exists(disk', n)
                  /\ disk'[n] = disk[n] ]_vars

=============================================================================
